---- MODULE Spec2Model ----
(***************************************************************************)
(* Coordination fabric of the hygiene-prediction pipeline:                 *)
(*   - the Trigger (src/src/trigger/cmd/trigger.go): event ingress /clean, *)
(*     the CompletionCache `completed`, /purge;                            *)
(*   - the Extractor (src/unnamed/part_013): RunExtractor's chunk loop,    *)
(*     the checkpoint object, the chunk blobs and the date manifest.       *)
(* Each HTTP handler / goroutine is a process with a program counter; the  *)
(* object store, the feed and the transport are the environment.           *)
(***************************************************************************)
EXTENDS Integers, Sequences, FiniteSets, TLC

\* ---------------------------------------------------------------- bounds
MaxCount == 2
MaxRuns == 2
FeedRows == 1500

\* ------------------------------------------------------- program constants
chunkSize == 1000
MaxFetchAttempts == 5

\* ------------------------------------------------------------ input sets
Dates == {"2025-03-30", "2025-03-31"}

Events == {"extractor_started", "extractor_completed", "cleaner_completed",
           "loader_parquet_completed", "unknown_event"}

RoutedEvents == {"extractor_completed", "cleaner_completed"}

RacedDates == {"2025-03-30"}

Methods == {"POST", "GET"}

Durations == {"", "1.500"}

Handlers == {1, 2}

VARIABLES
    \* ---- Trigger
    completed,      \* the CompletionCache: map date -> set of events set to true
    hpc,            \* per handler goroutine: position in handleTrigger
    hreq,           \* per handler: the decoded event (event, date, origin, duration)
    resp,           \* per handler: HTTP status written for its request (0: none yet)
    fwd,            \* per handler: the forward POST issued for its request, or NoFwd
    logged,         \* per handler: the duration line appended for its request, or <<>>
    passed,         \* history: handlers that passed the duplicate check, per (date, event), since the last purge
    fwdCount,       \* history: forward POSTs per (date, event) since the last purge
    crashed,        \* the Go runtime aborted the process on a detected map race
    purgedSeen,     \* history: some purge removed WatchedKey from the CompletionCache
    fwdLost,        \* history: the forward POST for WatchedKey failed since the last purge
    runCall,        \* the last /run request served: the request, the forward POST, the status
    \* ---- Extractor and object store
    checkpoint,     \* the object last_checkpoint.json: NoObject or the JSON document written
    blobs,          \* chunk blobs: map <<date, offset>> -> number of NDJSON lines
    manifest,       \* map date -> the _manifest.json document under raw-data/{date}/
    shutdownRequested,  \* the extractor's cooperative shutdown flag
    run,            \* per RunExtractor goroutine: position, arguments and locals
    started,        \* number of /extract requests accepted so far (bounded by MaxRuns)
    mwrites,        \* history: successful writes of each date's manifest
    writer,         \* history: per date, the chunks written by the run that wrote the manifest
    \* ---- Parquet Loader
    loader          \* the last request served by http_entry_point: its inputs and outcome

trigVars == <<completed, hpc, hreq, resp, fwd, logged, passed, fwdCount, crashed,
              purgedSeen, fwdLost, runCall>>

extVars == <<checkpoint, blobs, manifest, shutdownRequested, run, started, mwrites, writer>>

ldrVars == <<loader>>

\* ======================================================================
\*                               TRIGGER
\* ======================================================================

EmptyCache == [d \in {} |-> {}]

NoReq == [event |-> "", date |-> "", origin |-> "", duration |-> ""]

NoFwd == [to |-> "none", date |-> "", delivered |-> FALSE]

KeyOf(date, event) == <<date, event>>

\* the (date, event) whose passage through a purge is recorded
WatchedKey == <<"2025-03-30", "cleaner_completed">>

\* a RunRequest body as JSON: its six keys (probabilities in hundredths)
RunBody(date, maxOffset, api, gcs, drop, delay) ==
    [date |-> date, max_offset |-> maxOffset, api_error_prob |-> api,
     gcs_error_prob |-> gcs, row_drop_prob |-> drop, delay_prob |-> delay]

NoBody == RunBody("", 0, 0, 0, 0, 0)

NoRunCall ==
    [req |-> [method |-> "", wellFormed |-> FALSE, body |-> NoBody],
     fwd |-> [sent |-> FALSE, body |-> NoBody], delivered |-> FALSE, resp |-> 0]

Keys == Dates \X Events

\* completed[date][event] as Go evaluates it: a missing outer or inner entry reads false.
IsDuplicateAlwaysFalse(c, date, event) == FALSE

IsDuplicate(c, date, event) ==
    date \in DOMAIN c /\ event \in c[date]

\* the routing switch: the worker an event is forwarded to ("none": no forward)
RouteOfViaJsonLoader(event) ==
    CASE event = "extractor_completed" -> "Cleaner"
      [] event = "cleaner_completed" -> "Loader-JSON"
      [] OTHER -> "none"

RouteOfSkipsCleaner(event) ==
    CASE event = "extractor_completed" -> "Loader-Parquet"
      [] event = "cleaner_completed" -> "Loader-Parquet"
      [] OTHER -> "none"

RouteOf(event) ==
    CASE event = "extractor_completed" -> "Cleaner"
      [] event = "cleaner_completed" -> "Loader-Parquet"
      [] OTHER -> "none"

TrigInit ==
    /\ completed = EmptyCache
    /\ hpc = [h \in Handlers |-> "idle"]
    /\ hreq = [h \in Handlers |-> NoReq]
    /\ resp = [h \in Handlers |-> 0]
    /\ fwd = [h \in Handlers |-> NoFwd]
    /\ logged = [h \in Handlers |-> <<>>]
    /\ passed = [k \in Keys |-> 0]
    /\ fwdCount = [k \in Keys |-> 0]
    /\ crashed = FALSE
    /\ purgedSeen = FALSE
    /\ fwdLost = FALSE
    /\ runCall = NoRunCall

\* net/http serves each request on a goroutine of its own; the goroutines are
\* interchangeable, a request takes the lowest free slot
FreeSlot(h) == hpc[h] = "idle" /\ \A g \in Handlers : g < h => hpc[g] # "idle"

\* handleTrigger, method check and body decode (lines 104-129)
Receive(h, method, wellFormed, event, date, duration) ==
    /\ ~crashed
    /\ FreeSlot(h)
    /\ fwd' = [fwd EXCEPT ![h] = NoFwd]
    /\ logged' = [logged EXCEPT ![h] = <<>>]
    /\ IF method # "POST"
       THEN /\ resp' = [resp EXCEPT ![h] = 405]
            /\ hreq' = [hreq EXCEPT ![h] = NoReq]
            /\ UNCHANGED hpc
       ELSE IF ~wellFormed
       THEN /\ resp' = [resp EXCEPT ![h] = 400]
            /\ hreq' = [hreq EXCEPT ![h] = NoReq]
            /\ UNCHANGED hpc
       ELSE /\ resp' = [resp EXCEPT ![h] = 0]
            /\ hreq' = [hreq EXCEPT ![h] = [event |-> event, date |-> date,
                                            origin |-> "worker", duration |-> duration]]
            /\ hpc' = [hpc EXCEPT ![h] = "lookup"]
    /\ UNCHANGED <<completed, passed, fwdCount, crashed>>
    /\ UNCHANGED <<purgedSeen, fwdLost, runCall>>

\* line 132-134: create the inner map when the date has none
Lookup(h) ==
    /\ ~crashed
    /\ hpc[h] = "lookup"
    /\ IF hreq[h].date \in DOMAIN completed
       THEN hpc' = [hpc EXCEPT ![h] = "check"]
       ELSE hpc' = [hpc EXCEPT ![h] = "mkmap"]
    /\ UNCHANGED <<completed, hreq, resp, fwd, logged, passed, fwdCount, crashed>>
    /\ UNCHANGED <<purgedSeen, fwdLost, runCall>>

MkMap(h) ==
    /\ ~crashed
    /\ hpc[h] = "mkmap"
    /\ completed' = [d \in DOMAIN completed \cup {hreq[h].date} |->
                        IF d = hreq[h].date THEN {} ELSE completed[d]]
    /\ hpc' = [hpc EXCEPT ![h] = "check"]
    /\ UNCHANGED <<hreq, resp, fwd, logged, passed, fwdCount, crashed>>
    /\ UNCHANGED <<purgedSeen, fwdLost, runCall>>

\* line 135-140: the duplicate check
CheckLogsDuplicate(h) ==
    /\ ~crashed
    /\ hpc[h] = "check"
    /\ IF IsDuplicate(completed, hreq[h].date, hreq[h].event)
       THEN /\ resp' = [resp EXCEPT ![h] = 200]
            /\ hpc' = [hpc EXCEPT ![h] = "idle"]
            /\ logged' = [logged EXCEPT ![h] =
                            <<hreq[h].date, hreq[h].event, hreq[h].duration>>]
            /\ UNCHANGED passed
       ELSE /\ passed[KeyOf(hreq[h].date, hreq[h].event)] < MaxCount
            /\ hpc' = [hpc EXCEPT ![h] = "insert"]
            /\ passed' = [passed EXCEPT ![KeyOf(hreq[h].date, hreq[h].event)] = @ + 1]
            /\ UNCHANGED <<resp, logged>>
    /\ UNCHANGED <<completed, hreq, fwd, fwdCount, crashed>>
    /\ UNCHANGED <<purgedSeen, fwdLost, runCall>>

CheckRequiresExtracted(h) ==
    /\ ~crashed
    /\ hpc[h] = "check"
    /\ IF \/ IsDuplicate(completed, hreq[h].date, hreq[h].event)
          \/ /\ hreq[h].event = "cleaner_completed"
             /\ ~IsDuplicate(completed, hreq[h].date, "extractor_completed")
       THEN /\ resp' = [resp EXCEPT ![h] = 200]
            /\ hpc' = [hpc EXCEPT ![h] = "idle"]
            /\ UNCHANGED passed
       ELSE /\ passed[KeyOf(hreq[h].date, hreq[h].event)] < MaxCount
            /\ hpc' = [hpc EXCEPT ![h] = "insert"]
            /\ passed' = [passed EXCEPT ![KeyOf(hreq[h].date, hreq[h].event)] = @ + 1]
            /\ UNCHANGED resp
    /\ UNCHANGED <<completed, hreq, fwd, logged, fwdCount, crashed>>
    /\ UNCHANGED <<purgedSeen, fwdLost, runCall>>

Check(h) ==
    /\ ~crashed
    /\ hpc[h] = "check"
    /\ IF IsDuplicate(completed, hreq[h].date, hreq[h].event)
       THEN /\ resp' = [resp EXCEPT ![h] = 200]
            /\ hpc' = [hpc EXCEPT ![h] = "idle"]
            /\ UNCHANGED passed
       ELSE /\ passed[KeyOf(hreq[h].date, hreq[h].event)] < MaxCount
            /\ hpc' = [hpc EXCEPT ![h] = "insert"]
            /\ passed' = [passed EXCEPT ![KeyOf(hreq[h].date, hreq[h].event)] = @ + 1]
            /\ UNCHANGED resp
    /\ UNCHANGED <<completed, hreq, fwd, logged, fwdCount, crashed>>
    /\ UNCHANGED <<purgedSeen, fwdLost, runCall>>

\* line 141: completed[date][event] = true; an assignment into a missing (nil)
\* inner map panics, and net/http drops the connection without a response
Insert(h) ==
    /\ ~crashed
    /\ hpc[h] = "insert"
    /\ IF hreq[h].date \in DOMAIN completed
       THEN /\ completed' = [completed EXCEPT ![hreq[h].date] = @ \cup {hreq[h].event}]
            /\ hpc' = [hpc EXCEPT ![h] = "route"]
            /\ UNCHANGED resp
       ELSE /\ hpc' = [hpc EXCEPT ![h] = "idle"]
            /\ resp' = [resp EXCEPT ![h] = -1]
            /\ UNCHANGED completed
    /\ UNCHANGED <<hreq, fwd, logged, passed, fwdCount, crashed>>
    /\ UNCHANGED <<purgedSeen, fwdLost, runCall>>

\* lines 143-198: duration log, routing switch with forwardToService, reply 200
RouteReplies502(h, delivered) ==
    /\ ~crashed
    /\ hpc[h] = "route"
    /\ logged' = [logged EXCEPT ![h] =
                    IF hreq[h].duration # ""
                    THEN <<hreq[h].date, hreq[h].event, hreq[h].duration>>
                    ELSE <<>>]
    /\ IF RouteOf(hreq[h].event) # "none"
       THEN /\ fwd' = [fwd EXCEPT ![h] = [to |-> RouteOf(hreq[h].event),
                                          date |-> hreq[h].date,
                                          delivered |-> delivered]]
            /\ fwdCount' = [fwdCount EXCEPT ![KeyOf(hreq[h].date, hreq[h].event)] = @ + 1]
            /\ resp' = [resp EXCEPT ![h] = IF delivered THEN 200 ELSE 502]
       ELSE /\ delivered
            /\ resp' = [resp EXCEPT ![h] = 200]
            /\ UNCHANGED <<fwd, fwdCount>>
    /\ hpc' = [hpc EXCEPT ![h] = "idle"]
    /\ UNCHANGED <<completed, hreq, passed, crashed>>
    /\ fwdLost' = (fwdLost \/ (/\ RouteOf(hreq[h].event) # "none"
                                /\ ~delivered
                                /\ KeyOf(hreq[h].date, hreq[h].event) = WatchedKey))
    /\ UNCHANGED <<purgedSeen, runCall>>

RouteForgetsFailed(h, delivered) ==
    /\ ~crashed
    /\ hpc[h] = "route"
    /\ logged' = [logged EXCEPT ![h] =
                    IF hreq[h].duration # ""
                    THEN <<hreq[h].date, hreq[h].event, hreq[h].duration>>
                    ELSE <<>>]
    /\ IF RouteOf(hreq[h].event) # "none"
       THEN /\ fwd' = [fwd EXCEPT ![h] = [to |-> RouteOf(hreq[h].event),
                                          date |-> hreq[h].date,
                                          delivered |-> delivered]]
            /\ fwdCount' = [fwdCount EXCEPT ![KeyOf(hreq[h].date, hreq[h].event)] = @ + 1]
       ELSE /\ delivered
            /\ UNCHANGED <<fwd, fwdCount>>
    /\ resp' = [resp EXCEPT ![h] = 200]
    /\ hpc' = [hpc EXCEPT ![h] = "idle"]
    /\ completed' = IF RouteOf(hreq[h].event) # "none" /\ ~delivered
                    THEN [completed EXCEPT ![hreq[h].date] = @ \ {hreq[h].event}]
                    ELSE completed
    /\ UNCHANGED <<hreq, passed, crashed>>
    /\ fwdLost' = (fwdLost \/ (/\ RouteOf(hreq[h].event) # "none"
                                /\ ~delivered
                                /\ KeyOf(hreq[h].date, hreq[h].event) = WatchedKey))
    /\ UNCHANGED <<purgedSeen, runCall>>

Route(h, delivered) ==
    /\ ~crashed
    /\ hpc[h] = "route"
    /\ logged' = [logged EXCEPT ![h] =
                    IF hreq[h].duration # ""
                    THEN <<hreq[h].date, hreq[h].event, hreq[h].duration>>
                    ELSE <<>>]
    /\ IF RouteOf(hreq[h].event) # "none"
       THEN /\ fwd' = [fwd EXCEPT ![h] = [to |-> RouteOf(hreq[h].event),
                                          date |-> hreq[h].date,
                                          delivered |-> delivered]]
            /\ fwdCount' = [fwdCount EXCEPT ![KeyOf(hreq[h].date, hreq[h].event)] = @ + 1]
       ELSE /\ delivered
            /\ UNCHANGED <<fwd, fwdCount>>
    /\ resp' = [resp EXCEPT ![h] = 200]
    /\ hpc' = [hpc EXCEPT ![h] = "idle"]
    /\ UNCHANGED <<completed, hreq, passed, crashed>>
    /\ fwdLost' = (fwdLost \/ (/\ RouteOf(hreq[h].event) # "none"
                                /\ ~delivered
                                /\ KeyOf(hreq[h].date, hreq[h].event) = WatchedKey))
    /\ UNCHANGED <<purgedSeen, runCall>>

\* the /purge handler (lines 235-244)
PurgeKeepsCache(method) ==
    /\ ~crashed
    /\ IF method # "POST"
       THEN UNCHANGED <<passed, fwdCount, purgedSeen, fwdLost>>
       ELSE /\ passed' = [k \in Keys |-> 0]
            /\ fwdCount' = [k \in Keys |-> 0]
            /\ purgedSeen' = (purgedSeen \/ IsDuplicate(completed, WatchedKey[1], WatchedKey[2]))
            /\ fwdLost' = FALSE
    /\ UNCHANGED <<completed, hpc, hreq, resp, fwd, logged, crashed, runCall>>

Purge(method) ==
    /\ ~crashed
    /\ IF method # "POST"
       THEN UNCHANGED <<completed, passed, fwdCount, purgedSeen, fwdLost>>
       ELSE /\ completed' = EmptyCache
            /\ passed' = [k \in Keys |-> 0]
            /\ fwdCount' = [k \in Keys |-> 0]
            /\ purgedSeen' = (purgedSeen \/ IsDuplicate(completed, WatchedKey[1], WatchedKey[2]))
            /\ fwdLost' = FALSE
    /\ UNCHANGED <<hpc, hreq, resp, fwd, logged, crashed, runCall>>

\* handleRun, lines 47-59: the body decoded into the payload struct
DecodeRunRequest(body) ==
    [Date |-> body.date, MaxOffset |-> body.max_offset,
     APIErrorProb |-> body.api_error_prob, GCSErrorProb |-> body.gcs_error_prob,
     RowDropProb |-> body.row_drop_prob, DelayProb |-> body.delay_prob]

\* handleRun, lines 72-79: the map marshalled as the body of the POST to the Extractor
ExtractorPayloadNoFaults(payload) ==
    RunBody(payload.Date, payload.MaxOffset, 0, 0, 0, 0)

ExtractorPayload(payload) ==
    RunBody(payload.Date, payload.MaxOffset, payload.APIErrorProb,
            payload.GCSErrorProb, payload.RowDropProb, payload.DelayProb)

\* handleRun (lines 41-99): method check, decode, POST to the Extractor; 502 when
\* http.Post returns an error, 200 otherwise. (json.Marshal of decoded numbers and
\* a string cannot fail, so the 500 branch of lines 81-86 is not taken.)
HandleRun(method, wellFormed, body, delivered) ==
    /\ ~crashed
    /\ LET req == [method |-> method, wellFormed |-> wellFormed, body |-> body]
       IN IF method # "POST"
          THEN runCall' = [req |-> req, fwd |-> [sent |-> FALSE, body |-> NoBody],
                           delivered |-> FALSE, resp |-> 405]
          ELSE IF ~wellFormed
          THEN runCall' = [req |-> req, fwd |-> [sent |-> FALSE, body |-> NoBody],
                           delivered |-> FALSE, resp |-> 400]
          ELSE runCall' = [req |-> req,
                           fwd |-> [sent |-> TRUE,
                                    body |-> ExtractorPayload(DecodeRunRequest(body))],
                           delivered |-> delivered,
                           resp |-> IF delivered THEN 200 ELSE 502]
    /\ UNCHANGED <<completed, hpc, hreq, resp, fwd, logged, passed, fwdCount, crashed,
                   purgedSeen, fwdLost>>

InMapAccess(h) == hpc[h] \in {"lookup", "mkmap", "check", "insert"}

MapWriter(h) == hpc[h] \in {"mkmap", "insert"}

\* Unsynchronised access to a Go map from two goroutines, one of them writing,
\* is a data race; the runtime may detect it and abort the process
\* ("fatal error: concurrent map writes").
RaceFatal ==
    /\ ~crashed
    /\ \E h1, h2 \in Handlers : h1 # h2 /\ MapWriter(h1) /\ InMapAccess(h2)
    /\ crashed' = TRUE
    /\ UNCHANGED <<completed, hpc, hreq, resp, fwd, logged, passed, fwdCount>>
    /\ UNCHANGED <<purgedSeen, fwdLost, runCall>>

NoneInFlight == \A h \in Handlers : hpc[h] = "idle"

\* requests handled one after another: a request is accepted only when no
\* handler is in flight
\* the requests /clean is sent: a request with another method, a POST whose body
\* does not decode, and the well-formed events
CleanRequests ==
    {[method |-> "GET", wellFormed |-> TRUE, event |-> "", date |-> "", duration |-> ""],
     [method |-> "POST", wellFormed |-> FALSE, event |-> "", date |-> "", duration |-> ""]}
    \cup [method : {"POST"}, wellFormed : {TRUE}, event : Events, date : Dates,
          duration : Durations]

ReceiveSeq ==
    \E h \in Handlers, q \in CleanRequests :
        /\ NoneInFlight
        /\ Receive(h, q.method, q.wellFormed, q.event, q.date, q.duration)
        /\ UNCHANGED <<extVars, ldrVars>>

PurgeSeq == \E m \in Methods : NoneInFlight /\ Purge(m) /\ UNCHANGED <<extVars, ldrVars>>

\* requests served concurrently, one goroutine per request
ReceiveConc ==
    \E h \in Handlers, e \in RoutedEvents, d \in RacedDates :
        Receive(h, "POST", TRUE, e, d, "") /\ UNCHANGED <<extVars, ldrVars>>

PurgeConc == Purge("POST") /\ UNCHANGED <<extVars, ldrVars>>

RaceFatalStep == RaceFatal /\ UNCHANGED <<extVars, ldrVars>>

LookupStep == \E h \in Handlers : Lookup(h) /\ UNCHANGED <<extVars, ldrVars>>

MkMapStep == \E h \in Handlers : MkMap(h) /\ UNCHANGED <<extVars, ldrVars>>

CheckStep == \E h \in Handlers : Check(h) /\ UNCHANGED <<extVars, ldrVars>>

InsertStep == \E h \in Handlers : Insert(h) /\ UNCHANGED <<extVars, ldrVars>>

RouteStep ==
    \E h \in Handlers, delivered \in BOOLEAN : Route(h, delivered) /\ UNCHANGED <<extVars, ldrVars>>

\* ---- /run requests, served between events of one date
RunMaxOffsets == {0, 1000, 2000}

RunProfiles == {<<0, 0, 0, 0>>, <<100, 0, 0, 0>>, <<0, 100, 0, 0>>, <<0, 0, 100, 0>>,
                <<0, 0, 0, 100>>, <<50, 25, 75, 99>>}

RunRequests ==
    {[method |-> "GET", wellFormed |-> TRUE, body |-> NoBody],
     [method |-> "POST", wellFormed |-> FALSE, body |-> NoBody]}
    \cup {[method |-> "POST", wellFormed |-> TRUE,
           body |-> RunBody(d, m, p[1], p[2], p[3], p[4])] :
              d \in Dates, m \in RunMaxOffsets, p \in RunProfiles}

HandleRunStep ==
    \E q \in RunRequests, delivered \in BOOLEAN :
        /\ NoneInFlight
        /\ HandleRun(q.method, q.wellFormed, q.body, delivered)
        /\ UNCHANGED <<extVars, ldrVars>>

ReceiveRouted ==
    \E h \in Handlers, e \in RoutedEvents, d \in RacedDates :
        /\ NoneInFlight
        /\ Receive(h, "POST", TRUE, e, d, "")
        /\ UNCHANGED <<extVars, ldrVars>>

TrigRunNext ==
    \/ HandleRunStep
    \/ ReceiveRouted
    \/ LookupStep
    \/ MkMapStep
    \/ CheckStep
    \/ InsertStep
    \/ RouteStep

TrigSeqNext ==
    \/ ReceiveSeq
    \/ LookupStep
    \/ MkMapStep
    \/ CheckStep
    \/ InsertStep
    \/ RouteStep
    \/ PurgeSeq

TrigConcNext ==
    \/ ReceiveConc
    \/ LookupStep
    \/ MkMapStep
    \/ CheckStep
    \/ InsertStep
    \/ RouteStep
    \/ PurgeConc
    \/ RaceFatalStep


\* ======================================================================
\*                              EXTRACTOR
\* ======================================================================

RunSlots == {1, 2}

\* max_offset values of a RunRequest (0: no bound)
MaxOffsets == {0, 1000, 2000}

\* the fault-injection probabilities of a RunRequest, in hundredths:
\* api_error_prob, gcs_error_prob, row_drop_prob, delay_prob
Prob(api, gcs, drop, delay) == [api |-> api, gcs |-> gcs, drop |-> drop, delay |-> delay]

FaultProfiles ==
    {Prob(0, 0, 0, 0), Prob(100, 0, 0, 0), Prob(0, 100, 0, 0),
     Prob(0, 0, 100, 0), Prob(0, 0, 0, 100), Prob(50, 50, 50, 0)}

\* outcomes of the retry loop: the first, a later or no attempt returns 200
FirstOkChoices == {1, MaxFetchAttempts, MaxFetchAttempts + 1}

\* values rand.Float64() can return, in hundredths: the interval [0, 1)
Draws == {0, 25, 75, 99}

NoObject == [kind |-> "absent"]

EmptyMap == [x \in {} |-> 0]

Min(a, b) == IF a < b THEN a ELSE b

Max(a, b) == IF a > b THEN a ELSE b

\* the stable source feed: the number of records of the page at $offset, $limit
PageRows(offset, limit) == Min(limit, Max(0, FeedRows - offset))

\* WriteCheckpoint marshals map[string]int{"last_offset": offset}
CheckpointDoc(offset) == [kind |-> "json", key |-> "last_offset", value |-> offset]

\* encoding/json matches an object key to a struct field by name, exactly or
\* ignoring case; nothing else (an underscore is a character like any other)
Lower(s) ==
    CASE s = "LastOffset" -> "lastoffset"
      [] s = "last_offset" -> "last_offset"
      [] OTHER -> s

KeyMatchesField(key, field) == key = field \/ Lower(key) = Lower(field)

\* the field the checkpoint is decoded into: struct{ LastOffset int }, no json tag
CheckpointField == "LastOffset"

\* ReadCheckpoint: 0 when the object is missing or does not parse; otherwise the
\* decoded LastOffset, which stays 0 when no key of the document matches the field
ReadCheckpoint(obj) ==
    IF obj = NoObject THEN 0
    ELSE IF KeyMatchesField(obj.key, CheckpointField) THEN obj.value
    ELSE 0

\* the row-drop loop keeps a record iff rand.Float64() > rowDropProb
Keeps(u, rowDropProb) == u > rowDropProb

\* a fault gate fires iff rand.Float64() < prob
GateFires(u, prob) == u < prob

\* record counts the row-drop loop is sampled at, out of n records
SampleCounts(n) == {0, n - 1, n} \cap (0..n)

\* the numbers of retained records the loop can produce on n records
KeptChoices(n, rowDropProb) ==
    {k \in SampleCounts(n) :
        /\ (k > 0 => \E u \in Draws : Keeps(u, rowDropProb))
        /\ (k < n => \E u \in Draws : ~Keeps(u, rowDropProb))}

\* the retry loop: attempt i (1..5) is the first to return 200, or none does
\* (firstOk = MaxFetchAttempts + 1); the number of GET requests issued
GetsIssuedNoBreak(firstOk) == MaxFetchAttempts

GetsIssued(firstOk) == Min(firstOk, MaxFetchAttempts)

\* files = append(files, filepath.Base(objectName)), reached only when SaveObject
\* returned no error; a file name offset_N.json is represented by N
FilesAfterSaveAlways(files, offset, saved) == Append(files, offset)

FilesAfterSaveLastOnly(files, offset, saved) == IF saved THEN <<offset>> ELSE files

FilesAfterSave(files, offset, saved) ==
    IF saved THEN Append(files, offset) ELSE files

\* the manifest document of lines 297-301
ManifestDocIncomplete(date, files) ==
    [date |-> date, files |-> files, upload_complete |-> files # <<>>]

ManifestDoc(date, files) ==
    [date |-> date, files |-> files, upload_complete |-> TRUE]

Range(f) == {f[i] : i \in DOMAIN f}

\* the row writeChunkMetrics builds (lines 78-120), without its two clock fields
ChunkMetricNoFlags(offset, rowsExtracted, rowsDropped, delayApplied, fetchSkipped, gcsSkipped) ==
    [offset |-> offset, rows_extracted |-> rowsExtracted, rows_dropped |-> rowsDropped,
     delay_applied |-> delayApplied, fetch_skipped |-> FALSE,
     gcs_write_skipped |-> FALSE]

ChunkMetricOneSkipFlag(offset, rowsExtracted, rowsDropped, delayApplied, fetchSkipped, gcsSkipped) ==
    [offset |-> offset, rows_extracted |-> rowsExtracted, rows_dropped |-> rowsDropped,
     delay_applied |-> delayApplied, fetch_skipped |-> fetchSkipped \/ gcsSkipped,
     gcs_write_skipped |-> fetchSkipped \/ gcsSkipped]

ChunkMetric(offset, rowsExtracted, rowsDropped, delayApplied, fetchSkipped, gcsSkipped) ==
    [offset |-> offset, rows_extracted |-> rowsExtracted, rows_dropped |-> rowsDropped,
     delay_applied |-> delayApplied, fetch_skipped |-> fetchSkipped,
     gcs_write_skipped |-> gcsSkipped]

\* offset += chunkSize (lines 189, 256, 284)
NextOffsetStays(offset) == offset

NextOffset(offset) == offset + chunkSize

\* the max_offset test of line 291
ReachedMaxOffsetNever(maxOffset, offset, initialOffset) == FALSE

ReachedMaxOffset(maxOffset, offset, initialOffset) ==
    maxOffset > 0 /\ offset >= initialOffset + maxOffset

IdleRun ==
    [pc |-> "idle", id |-> 0, date |-> "", maxOffset |-> 0,
     api |-> 0, gcs |-> 0, drop |-> 0, delay |-> 0,
     offset |-> 0, initialOffset |-> 0, files |-> <<>>,
     nrec |-> 0, kept |-> 0, rowsDropped |-> 0, delayApplied |-> FALSE, gets |-> 0,
     okAt |-> 0, postedStarted |-> 0, postedCompleted |-> 0,
     skipped |-> {}, written |-> {}, cause |-> "none", wroteManifest |-> 0,
     metrics |-> {}, storedRows |-> 0, droppedRows |-> 0, stopAsked |-> FALSE]

ExtInit ==
    /\ checkpoint = NoObject
    /\ blobs = EmptyMap
    /\ manifest = EmptyMap
    /\ shutdownRequested = FALSE
    /\ run = [r \in RunSlots |-> IdleRun]
    /\ started = 0
    /\ mwrites = [d \in Dates |-> 0]
    /\ writer = [d \in Dates |-> {}]

Finished(r) == run[r].pc \in {"idle", "done", "failed"}

FreeRunSlot(r) == Finished(r) /\ \A q \in RunSlots : q < r => ~Finished(q)

\* handleExtract (lines 332-368): decode the RunRequest, start RunExtractor on a
\* goroutine of its own, reply 200
HandleExtract(r, wellFormed, date, maxOffset, api, gcs, drop, delay) ==
    /\ FreeRunSlot(r)
    /\ started < MaxRuns
    /\ IF ~wellFormed
       THEN UNCHANGED <<run, started>>
       ELSE /\ started' = started + 1
            /\ run' = [run EXCEPT ![r] =
                    [IdleRun EXCEPT !.pc = "start", !.id = started + 1, !.date = date,
                                    !.maxOffset = maxOffset, !.api = api, !.gcs = gcs,
                                    !.drop = drop, !.delay = delay]]
    /\ UNCHANGED <<checkpoint, blobs, manifest, shutdownRequested, mwrites, writer>>

\* lines 129-136: post extractor_started; the result of the POST is ignored
PostStartedSkipped(r, delivered) ==
    /\ run[r].pc = "start"
    /\ run' = [run EXCEPT ![r].pc = "setup"]
    /\ UNCHANGED <<checkpoint, blobs, manifest, shutdownRequested, started, mwrites, writer>>

PostStarted(r, delivered) ==
    /\ run[r].pc = "start"
    /\ run' = [run EXCEPT ![r].pc = "setup", ![r].postedStarted = @ + 1]
    /\ UNCHANGED <<checkpoint, blobs, manifest, shutdownRequested, started, mwrites, writer>>

\* lines 140-170: storage client, bucket check (either may fail: return err),
\* then ReadCheckpoint
Setup(r, ok) ==
    /\ run[r].pc = "setup"
    /\ IF ~ok
       THEN run' = [run EXCEPT ![r].pc = "failed"]
       ELSE run' = [run EXCEPT ![r].pc = "gate",
                               ![r].offset = ReadCheckpoint(checkpoint),
                               ![r].initialOffset = ReadCheckpoint(checkpoint),
                               ![r].files = <<>>]
    /\ UNCHANGED <<checkpoint, blobs, manifest, shutdownRequested, started, mwrites, writer>>

\* loop locals (declared inside the for body) at the top of an iteration
NewIteration(rec) ==
    [rec EXCEPT !.nrec = 0, !.kept = 0, !.rowsDropped = 0, !.delayApplied = FALSE,
                !.gets = 0, !.okAt = 0]

\* the API gate is followed only while the offset is inside the feed, so that a
\* run whose gate always fires stays finite
OffsetCap == FeedRows

\* lines 172-191: top of the chunk loop, the API fault gate
ApiGate(r, u) ==
    /\ run[r].pc = "gate"
    /\ IF GateFires(u, run[r].api)
       THEN /\ run[r].offset < OffsetCap
            /\ run' = [run EXCEPT ![r].skipped = @ \cup {run[r].offset},
                                  ![r].metrics = @ \cup
                                      {ChunkMetric(run[r].offset, 0, 0, FALSE, TRUE, FALSE)},
                                  ![r].offset = NextOffset(@)]
       ELSE run' = [run EXCEPT ![r].pc = "fetch"]
    /\ UNCHANGED <<checkpoint, blobs, manifest, shutdownRequested, started, mwrites, writer>>

\* lines 195-223: the fetch with its retry loop, the exhaustion test (a body
\* shorter than 100 bytes: no record, or no body at all) and the parse
Fetch(r, firstOk, parses) ==
    /\ run[r].pc = "fetch"
    /\ LET n == PageRows(run[r].offset, chunkSize)
       IN IF firstOk > MaxFetchAttempts
          THEN run' = [run EXCEPT ![r].pc = "manifest", ![r].cause = "giveup",
                                  ![r].gets = GetsIssued(firstOk), ![r].okAt = firstOk]
          ELSE IF n = 0
          THEN run' = [run EXCEPT ![r].pc = "manifest", ![r].cause = "exhausted",
                                  ![r].gets = GetsIssued(firstOk), ![r].okAt = firstOk]
          ELSE IF ~parses
          THEN run' = [run EXCEPT ![r].pc = "manifest", ![r].cause = "parse",
                                  ![r].gets = GetsIssued(firstOk), ![r].okAt = firstOk]
          ELSE run' = [run EXCEPT ![r].pc = "transform", ![r].nrec = n,
                                  ![r].gets = GetsIssued(firstOk), ![r].okAt = firstOk]
    /\ UNCHANGED <<checkpoint, blobs, manifest, shutdownRequested, started, mwrites, writer>>

\* lines 225-265: row drop, NDJSON encoding, the GCS fault gate, the delay gate
Transform(r, kept, uGcs, uDelay) ==
    /\ run[r].pc = "transform"
    /\ kept \in KeptChoices(run[r].nrec, run[r].drop)
    /\ IF GateFires(uGcs, run[r].gcs)
       THEN run' = [run EXCEPT ![r] = [NewIteration(@) EXCEPT
                                            !.pc = "gate",
                                            !.skipped = @ \cup {run[r].offset},
                                            !.metrics = @ \cup
                                                {ChunkMetric(run[r].offset, kept,
                                                             run[r].nrec - kept,
                                                             FALSE, FALSE, TRUE)},
                                            !.droppedRows = @ + (run[r].nrec - kept),
                                            !.offset = NextOffset(@)]]
       ELSE run' = [run EXCEPT ![r].pc = "save",
                               ![r].gets = 0,
                               ![r].okAt = 0,
                               ![r].kept = kept,
                               ![r].rowsDropped = run[r].nrec - kept,
                               ![r].droppedRows = @ + (run[r].nrec - kept),
                               ![r].delayApplied = GateFires(uDelay, run[r].delay)]
    /\ UNCHANGED <<checkpoint, blobs, manifest, shutdownRequested, started, mwrites, writer>>

Path(date, offset) == <<date, offset>>

PutBlobEmpty(store, path, lines) ==
    [p \in DOMAIN store \cup {path} |-> IF p = path THEN 0 ELSE store[p]]

PutBlob(store, path, lines) ==
    [p \in DOMAIN store \cup {path} |-> IF p = path THEN lines ELSE store[p]]

\* lines 267-282: SaveObject of the chunk; on error leave the loop
SaveChunkAdvancesOnFailure(r, saved) ==
    /\ run[r].pc = "save"
    /\ IF saved
       THEN /\ blobs' = PutBlob(blobs, Path(run[r].date, run[r].offset), run[r].kept)
            /\ run' = [run EXCEPT ![r].pc = "ckpt",
                                  ![r].files = FilesAfterSave(@, run[r].offset, saved),
                                  ![r].metrics = @ \cup
                                      {ChunkMetric(run[r].offset, run[r].kept,
                                                   run[r].rowsDropped,
                                                   run[r].delayApplied, FALSE, FALSE)},
                                  ![r].storedRows = @ + run[r].kept,
                                  ![r].written = @ \cup {run[r].offset}]
       ELSE /\ run' = [run EXCEPT ![r].pc = "manifest", ![r].cause = "savefail",
                                  ![r].files = FilesAfterSave(@, run[r].offset, saved)]
            /\ UNCHANGED blobs
    /\ checkpoint' = IF saved THEN checkpoint
                     ELSE CheckpointDoc(NextOffset(run[r].offset))
    /\ UNCHANGED <<manifest, shutdownRequested, started, mwrites, writer>>

SaveChunk(r, saved) ==
    /\ run[r].pc = "save"
    /\ IF saved
       THEN /\ blobs' = PutBlob(blobs, Path(run[r].date, run[r].offset), run[r].kept)
            /\ run' = [run EXCEPT ![r].pc = "ckpt",
                                  ![r].files = FilesAfterSave(@, run[r].offset, saved),
                                  ![r].metrics = @ \cup
                                      {ChunkMetric(run[r].offset, run[r].kept,
                                                   run[r].rowsDropped,
                                                   run[r].delayApplied, FALSE, FALSE)},
                                  ![r].storedRows = @ + run[r].kept,
                                  ![r].written = @ \cup {run[r].offset}]
       ELSE /\ run' = [run EXCEPT ![r].pc = "manifest", ![r].cause = "savefail",
                                  ![r].files = FilesAfterSave(@, run[r].offset, saved)]
            /\ UNCHANGED blobs
    /\ UNCHANGED <<checkpoint, manifest, shutdownRequested, started, mwrites, writer>>

\* lines 284-294: advance the offset, WriteCheckpoint (its error is dropped),
\* then the shutdown and max_offset tests
Checkpoint(r, saved) ==
    /\ run[r].pc = "ckpt"
    /\ LET next == NextOffset(run[r].offset)
       IN /\ checkpoint' = IF saved THEN CheckpointDoc(next) ELSE checkpoint
          /\ IF shutdownRequested
             THEN run' = [run EXCEPT ![r] = [NewIteration(@) EXCEPT
                                    !.offset = next, !.pc = "manifest", !.cause = "shutdown"]]
             ELSE IF ReachedMaxOffset(run[r].maxOffset, next, run[r].initialOffset)
             THEN run' = [run EXCEPT ![r] = [NewIteration(@) EXCEPT
                                    !.offset = next, !.pc = "manifest", !.cause = "maxoffset"]]
             ELSE run' = [run EXCEPT ![r] = [NewIteration(@) EXCEPT
                                    !.offset = next, !.pc = "gate"]]
    /\ UNCHANGED <<blobs, manifest, shutdownRequested, started, mwrites, writer>>

\* lines 297-305: the manifest, written after the loop however the loop ended;
\* the error of its SaveObject is dropped
WriteManifest(r, saved) ==
    /\ run[r].pc = "manifest"
    /\ IF saved
       THEN /\ manifest' = [d \in DOMAIN manifest \cup {run[r].date} |->
                                IF d = run[r].date
                                THEN ManifestDoc(run[r].date, run[r].files)
                                ELSE manifest[d]]
            /\ mwrites' = [mwrites EXCEPT ![run[r].date] = @ + 1]
            /\ writer' = [writer EXCEPT ![run[r].date] = run[r].written]
            /\ run' = [run EXCEPT ![r] = [NewIteration(@) EXCEPT
                                    !.pc = "complete", !.wroteManifest = @ + 1]]
       ELSE /\ run' = [run EXCEPT ![r] = [NewIteration(@) EXCEPT !.pc = "complete"]]
            /\ UNCHANGED <<manifest, mwrites, writer>>
    /\ UNCHANGED <<checkpoint, blobs, shutdownRequested, started>>

\* lines 307-329: post extractor_completed; a failed POST is only logged
PostCompleted(r, delivered) ==
    /\ run[r].pc = "complete"
    /\ run' = [run EXCEPT ![r].pc = "done", ![r].postedCompleted = @ + 1]
    /\ UNCHANGED <<checkpoint, blobs, manifest, shutdownRequested, started, mwrites, writer>>

\* the positions inside the chunk loop (lines 172-295)
InChunkLoop(r) == run[r].pc \in {"gate", "fetch", "transform", "save", "ckpt"}

\* the /shutdown handler (lines 406-411); stopAsked records, for the runs that are
\* in their chunk loop at that moment, that the flag was set under them
Shutdown ==
    /\ ~shutdownRequested
    /\ shutdownRequested' = TRUE
    /\ run' = [r \in RunSlots |->
                  IF InChunkLoop(r) THEN [run[r] EXCEPT !.stopAsked = TRUE] ELSE run[r]]
    /\ UNCHANGED <<checkpoint, blobs, manifest, started, mwrites, writer>>

NoRunInFlight == \A r \in RunSlots : Finished(r)

\* runs executed one after another
HandleExtractSeq ==
    \E r \in RunSlots, wf \in BOOLEAN, d \in Dates, m \in MaxOffsets, p \in FaultProfiles :
        /\ NoRunInFlight
        /\ HandleExtract(r, wf, d, m, p.api, p.gcs, p.drop, p.delay)
        /\ UNCHANGED <<trigVars, ldrVars>>

PostStartedStep ==
    \E r \in RunSlots, ok \in BOOLEAN : PostStarted(r, ok) /\ UNCHANGED <<trigVars, ldrVars>>

SetupStep ==
    \E r \in RunSlots, ok \in BOOLEAN : Setup(r, ok) /\ UNCHANGED <<trigVars, ldrVars>>

ApiGateStep ==
    \E r \in RunSlots, u \in Draws : ApiGate(r, u) /\ UNCHANGED <<trigVars, ldrVars>>

FetchStep ==
    \E r \in RunSlots, firstOk \in FirstOkChoices, parses \in BOOLEAN :
        Fetch(r, firstOk, parses) /\ UNCHANGED <<trigVars, ldrVars>>

TransformStep ==
    \E r \in RunSlots, uGcs \in Draws, uDelay \in Draws :
        \E kept \in SampleCounts(run[r].nrec) :
            Transform(r, kept, uGcs, uDelay) /\ UNCHANGED <<trigVars, ldrVars>>

SaveChunkStep ==
    \E r \in RunSlots, ok \in BOOLEAN : SaveChunk(r, ok) /\ UNCHANGED <<trigVars, ldrVars>>

\* the object store accepts the checkpoint write (a few bytes, right after the
\* chunk was accepted)
CheckpointStep ==
    \E r \in RunSlots : Checkpoint(r, TRUE) /\ UNCHANGED <<trigVars, ldrVars>>

WriteManifestStep ==
    \E r \in RunSlots, ok \in BOOLEAN : WriteManifest(r, ok) /\ UNCHANGED <<trigVars, ldrVars>>

PostCompletedStep ==
    \E r \in RunSlots, ok \in BOOLEAN : PostCompleted(r, ok) /\ UNCHANGED <<trigVars, ldrVars>>

ExtSeqNext ==
    \/ HandleExtractSeq
    \/ PostStartedStep
    \/ SetupStep
    \/ ApiGateStep
    \/ FetchStep
    \/ TransformStep
    \/ SaveChunkStep
    \/ CheckpointStep
    \/ WriteManifestStep
    \/ PostCompletedStep

\* ---- /extract requests served concurrently: handleExtract starts each
\* RunExtractor on a goroutine of its own (lines 356-364), so a second run can
\* start while the first is in its chunk loop; the runs target disjoint dates
ConcMaxOffsets == {2000}

DisjointFromRunning(date) ==
    \A q \in RunSlots : ~Finished(q) => run[q].date # date

HandleExtractConc ==
    \E r \in RunSlots, d \in Dates, m \in ConcMaxOffsets :
        /\ DisjointFromRunning(d)
        /\ HandleExtract(r, TRUE, d, m, 0, 0, 0, 0)
        /\ UNCHANGED <<trigVars, ldrVars>>

ExtConcNext ==
    \/ HandleExtractConc
    \/ PostStartedStep
    \/ SetupStep
    \/ ApiGateStep
    \/ FetchStep
    \/ TransformStep
    \/ SaveChunkStep
    \/ CheckpointStep
    \/ WriteManifestStep
    \/ PostCompletedStep

\* ---- one Extractor process receiving /shutdown while it works
ShutdownDates == {"2025-03-30"}

ShutdownMaxOffsets == {0, 2000}

HandleExtractOnce ==
    \E r \in RunSlots, d \in ShutdownDates, m \in ShutdownMaxOffsets, p \in FaultProfiles :
        /\ NoRunInFlight
        /\ HandleExtract(r, TRUE, d, m, p.api, p.gcs, p.drop, p.delay)
        /\ UNCHANGED <<trigVars, ldrVars>>

ShutdownStep == Shutdown /\ UNCHANGED <<trigVars, ldrVars>>

ExtShutdownNext ==
    \/ HandleExtractOnce
    \/ PostStartedStep
    \/ SetupStep
    \/ ApiGateStep
    \/ FetchStep
    \/ TransformStep
    \/ SaveChunkStep
    \/ CheckpointStep
    \/ WriteManifestStep
    \/ PostCompletedStep
    \/ ShutdownStep

\* ---- the pipeline from /run to the Cleaner, with a responsive feed, object
\* store, Trigger and workers: every POST is delivered, every fetch returns 200
\* within the retry loop and parses, every object write succeeds
HappyMaxOffsets == {1000, 2000}

HappyFirstOk == {1, MaxFetchAttempts}

\* POST /run: handleRun posts the RunRequest to the Extractor's /extract, whose
\* handler starts the run and replies
HappyRun ==
    \E r \in RunSlots, d \in Dates, m \in HappyMaxOffsets :
        LET out == ExtractorPayload(DecodeRunRequest(RunBody(d, m, 0, 0, 0, 0)))
        IN /\ NoneInFlight
           /\ NoRunInFlight
           /\ started < MaxRuns
           /\ HandleRun("POST", TRUE, RunBody(d, m, 0, 0, 0, 0), TRUE)
           /\ HandleExtract(r, TRUE, out.date, out.max_offset, out.api_error_prob,
                            out.gcs_error_prob, out.row_drop_prob, out.delay_prob)
           /\ UNCHANGED ldrVars

\* the Extractor's POST of extractor_started arrives at /clean
HappyPostStarted ==
    \E r \in RunSlots, h \in Handlers :
        /\ PostStarted(r, TRUE)
        /\ Receive(h, "POST", TRUE, "extractor_started", run[r].date, "")
        /\ UNCHANGED ldrVars

\* http.Post returns when the Trigger has replied; the run then goes on
HappySetup ==
    \E r \in RunSlots : NoneInFlight /\ Setup(r, TRUE) /\ UNCHANGED <<trigVars, ldrVars>>

HappyFetch ==
    \E r \in RunSlots, firstOk \in HappyFirstOk :
        Fetch(r, firstOk, TRUE) /\ UNCHANGED <<trigVars, ldrVars>>

HappySaveChunk == \E r \in RunSlots : SaveChunk(r, TRUE) /\ UNCHANGED <<trigVars, ldrVars>>

HappyWriteManifest == \E r \in RunSlots : WriteManifest(r, TRUE) /\ UNCHANGED <<trigVars, ldrVars>>

\* the Extractor's POST of extractor_completed, with its duration, arrives at /clean
HappyPostCompleted ==
    \E r \in RunSlots, h \in Handlers :
        /\ PostCompleted(r, TRUE)
        /\ Receive(h, "POST", TRUE, "extractor_completed", run[r].date, "1.500")
        /\ UNCHANGED ldrVars

HappyRoute == \E h \in Handlers : Route(h, TRUE) /\ UNCHANGED <<extVars, ldrVars>>

\* the steps the Extractor and the Trigger take on their own
HappySystemNext ==
    \/ HappyPostStarted
    \/ HappySetup
    \/ ApiGateStep
    \/ HappyFetch
    \/ TransformStep
    \/ HappySaveChunk
    \/ CheckpointStep
    \/ HappyWriteManifest
    \/ HappyPostCompleted
    \/ LookupStep
    \/ MkMapStep
    \/ CheckStep
    \/ InsertStep
    \/ HappyRoute

HappyNext == HappyRun \/ HappySystemNext

\* ---- runs bounded by max_offset against a responsive feed (every fetch returns
\* 200 within the retry loop and parses), the RunExtractor goroutine scheduled
\* until it returns; /shutdown may arrive at any time
BoundedMaxOffsets == {1000, 2000}

HandleExtractBounded ==
    \E r \in RunSlots, d \in ShutdownDates, m \in BoundedMaxOffsets, p \in FaultProfiles :
        /\ NoRunInFlight
        /\ HandleExtract(r, TRUE, d, m, p.api, p.gcs, p.drop, p.delay)
        /\ UNCHANGED <<trigVars, ldrVars>>

ResponsiveFetch ==
    \E r \in RunSlots, firstOk \in HappyFirstOk :
        Fetch(r, firstOk, TRUE) /\ UNCHANGED <<trigVars, ldrVars>>

\* the steps of a RunExtractor goroutine
RunExtractorNext ==
    \/ PostStartedStep
    \/ SetupStep
    \/ ApiGateStep
    \/ ResponsiveFetch
    \/ TransformStep
    \/ SaveChunkStep
    \/ CheckpointStep
    \/ WriteManifestStep
    \/ PostCompletedStep

ExtLiveNext ==
    \/ HandleExtractBounded
    \/ RunExtractorNext
    \/ ShutdownStep

\* ======================================================================
\* Parquet Loader (bq_parquet_loader.py)
\* ======================================================================
MaxFiles == 2

\* the object clean-data/{date}/_manifest.json as load_manifest sees it: whether
\* the blob exists, whether json.loads accepts it, the value read by
\* manifest.get("upload_complete", False), and the length of its "files" list
ManifestObjects ==
    [exists : BOOLEAN, parses : BOOLEAN, upload_complete : BOOLEAN, files : 0..MaxFiles]

NoManifestObject == [exists |-> FALSE, parses |-> FALSE, upload_complete |-> FALSE, files |-> 0]

\* load_manifest (lines 69-91): the number of files it returns
load_manifestIgnoresFlag(doc) ==
    IF ~doc.exists THEN 0
    ELSE IF ~doc.parses THEN 0
    ELSE doc.files

load_manifest(doc) ==
    IF ~doc.exists THEN 0
    ELSE IF ~doc.parses THEN 0
    ELSE IF ~doc.upload_complete THEN 0
    ELSE doc.files

NoLoad ==
    [hasDate |-> FALSE, date |-> "", doc |-> NoManifestObject, reachable |-> FALSE,
     loaded |-> 0, posted |-> FALSE, status |-> 0]

\* load_parquet_to_bigquery (lines 94-152): the files loaded and whether the
\* completion event is posted; nLoaded of the listed files load without error
load_parquet_to_bigquery(doc, nLoaded) ==
    IF load_manifest(doc) = 0
    THEN [loaded |-> 0, posted |-> FALSE]
    ELSE [loaded |-> Min(nLoaded, load_manifest(doc)), posted |-> TRUE]

\* http_entry_point (lines 156-181): 400 without a date; 500 when anything raises
\* (the credentials lookup, the clients, ensure_dataset_exists, the manifest
\* read: the services the loader calls being unreachable); 200 otherwise. The
\* completion event is posted with requests.post to the Trigger's /clean.
http_entry_point(hasDate, date, doc, reachable, nLoaded, delivered) ==
    LET out == load_parquet_to_bigquery(doc, nLoaded)
        req == [hasDate |-> hasDate, date |-> IF hasDate THEN date ELSE "",
                doc |-> doc, reachable |-> reachable]
    IN IF ~hasDate
       THEN /\ loader' = req @@ [loaded |-> 0, posted |-> FALSE, status |-> 400]
            /\ UNCHANGED trigVars
       ELSE IF ~reachable
       THEN /\ loader' = req @@ [loaded |-> 0, posted |-> FALSE, status |-> 500]
            /\ UNCHANGED trigVars
       ELSE /\ loader' = req @@ [loaded |-> out.loaded, posted |-> out.posted,
                                 status |-> 200]
            /\ IF out.posted /\ delivered
               THEN \E h \in Handlers :
                        Receive(h, "POST", TRUE, "loader_parquet_completed", date, "1.500")
               ELSE UNCHANGED trigVars

LoadRequest ==
    \E hasDate \in BOOLEAN, date \in Dates, doc \in ManifestObjects,
       reachable \in BOOLEAN, nLoaded \in 0..MaxFiles, delivered \in BOOLEAN :
        /\ NoneInFlight
        /\ http_entry_point(hasDate, date, doc, reachable, nLoaded, delivered)
        /\ UNCHANGED extVars

LoaderNext ==
    \/ LoadRequest
    \/ LookupStep
    \/ MkMapStep
    \/ CheckStep
    \/ InsertStep
    \/ RouteStep

vars == <<trigVars, extVars, ldrVars>>

Init == TrigInit /\ ExtInit /\ loader = NoLoad

\* the Trigger serving its requests one after another
SpecTrigSeq == Init /\ [][TrigSeqNext]_vars

\* the Trigger serving its requests concurrently
SpecTrigConc == Init /\ [][TrigConcNext]_vars

\* the Trigger serving /run requests and events of one date, one after another
SpecTrigRun == Init /\ [][TrigRunNext]_vars

\* the pipeline from /run to the Cleaner with every component responsive; the
\* goroutines of the Extractor and of the Trigger keep running
SpecHappyPath == Init /\ [][HappyNext]_vars /\ WF_vars(HappySystemNext)

\* the Parquet Loader serving requests, and the Trigger its completion events
SpecLoader == Init /\ [][LoaderNext]_vars

\* the Extractor serving /extract requests for disjoint dates concurrently
SpecExtConc == Init /\ [][ExtConcNext]_vars

\* bounded runs against a responsive feed; a goroutine that can take a step
\* is eventually scheduled
SpecExtLive == Init /\ [][ExtLiveNext]_vars /\ WF_vars(RunExtractorNext)

\* the Extractor executing its runs one after another
SpecExtSeq == Init /\ [][ExtSeqNext]_vars

\* the Extractor executing runs one after another, with /shutdown arriving at any
\* moment
SpecExtShutdown == Init /\ [][ExtShutdownNext]_vars

\* ======================================================================
\*                               CLAIMS
\* ======================================================================

RoutedKey(h) == KeyOf(hreq[h].date, hreq[h].event)

\* C1: at-most-once forwarding. However many times a (date, event) is POSTed to
\* /clean one after another with no /purge in between, the worker mapped to the
\* event is sent at most one forward POST.
C1_AtMostOnceForward == \A k \in Keys : fwdCount[k] <= 1

\* C1 witness: a routed event was forwarded once, then POSTed again and answered
\* 200 without a forward.
C1_Witness ==
    \E h \in Handlers :
        /\ hpc[h] = "idle"
        /\ hreq[h].event \in RoutedEvents
        /\ resp[h] = 200
        /\ fwd[h] = NoFwd
        /\ fwdCount[RoutedKey(h)] = 1

\* C2: the check-and-insert on the CompletionCache is atomic per (date, event):
\* of the handlers that concurrently carry the same (date, event), at most one
\* passes the duplicate check.
C2_AtomicCheckAndInsert == \A k \in Keys : passed[k] <= 1

\* the last_offset a checkpoint object holds (0 while there is none)
LastOffsetOf(obj) == IF obj = NoObject THEN 0 ELSE obj.value

\* C3: checkpoint monotonicity. The persisted last_offset never decreases, neither
\* between runs nor after a successful chunk within a run.
C3_CheckpointMonotone ==
    [][LastOffsetOf(checkpoint') >= LastOffsetOf(checkpoint)]_vars

\* C4: resume from checkpoint. A run that reads the checkpoint starts its chunk
\* loop at the last_offset the previous run persisted.
C4_ResumeFromCheckpoint ==
    [][\A r \in RunSlots :
          (run[r].pc = "setup" /\ run'[r].pc = "gate")
              => run'[r].offset = LastOffsetOf(checkpoint)]_vars

\* C5: only durable success moves the checkpoint. At the end of a run the
\* persisted checkpoint is at most every offset the run skipped at a fault gate.
C5_SkippedOffsetRetried ==
    \A r \in RunSlots :
        run[r].pc = "done" =>
            \A n \in run[r].skipped : LastOffsetOf(checkpoint) <= n

\* C6: a run that left the chunk loop because the fetch gave up or because the
\* chunk's blob write failed writes no manifest.
C6_NoManifestAfterAbort ==
    \A r \in RunSlots :
        run[r].cause \in {"giveup", "savefail"} => run[r].wroteManifest = 0

BlobOffsets(d) == {p[2] : p \in {q \in DOMAIN blobs : q[1] = d}}

\* C7 as claimed: between runs, a present manifest lists every chunk blob written
\* under its date, those of earlier runs included.
C7_ManifestListsAllChunks ==
    NoRunInFlight =>
        \A d \in DOMAIN manifest : BlobOffsets(d) \subseteq Range(manifest[d].files)

\* C7 as amended: a present manifest lists exactly the chunk blobs written by the
\* run that wrote the manifest.
C7_ManifestListsWritersChunks ==
    \A d \in DOMAIN manifest : Range(manifest[d].files) = writer[d]

\* C7 witness: a date's manifest was rewritten by a second run and lists that
\* run's chunks, while a chunk of the earlier run is not in the list.
C7_Witness ==
    \E d \in DOMAIN manifest :
        /\ NoRunInFlight
        /\ mwrites[d] = 2
        /\ manifest[d].files # <<>>
        /\ Range(manifest[d].files) = writer[d]
        /\ BlobOffsets(d) \ Range(manifest[d].files) # {}

\* C8 as claimed: no date's manifest is written a second time, and every manifest
\* carries upload_complete = true.
C8_ManifestWrittenOnce ==
    \A d \in Dates :
        /\ mwrites[d] <= 1
        /\ d \in DOMAIN manifest => manifest[d].upload_complete

\* C8 as amended: each run writes the manifest of its date at most once, and every
\* manifest carries upload_complete = true; a date's manifest is written once per
\* run that reaches the end for that date.
C8_ManifestOncePerRun ==
    /\ \A r \in RunSlots : run[r].wroteManifest <= 1
    /\ \A d \in Dates : mwrites[d] <= started
    /\ \A d \in DOMAIN manifest : manifest[d].upload_complete

\* C8 witness: a second run for the same date wrote the manifest again.
C8_Witness ==
    \E d \in DOMAIN manifest :
        /\ mwrites[d] = 2
        /\ manifest[d].upload_complete
        /\ \E r \in RunSlots : run[r].date = d /\ run[r].wroteManifest = 1

\* C9: every file name in a manifest, and in a run's file list, names a blob
\* that was written under the same date prefix.
C9_ManifestFilesExist ==
    /\ \A d \in DOMAIN manifest :
          \A f \in Range(manifest[d].files) : Path(d, f) \in DOMAIN blobs
    /\ \A r \in RunSlots :
          \A f \in Range(run[r].files) : Path(run[r].date, f) \in DOMAIN blobs

\* C9 witness: a manifest listing two chunks, written by a run whose blob write
\* of a third chunk failed.
C9_Witness ==
    \E d \in DOMAIN manifest, r \in RunSlots :
        /\ run[r].date = d
        /\ run[r].cause = "savefail"
        /\ run[r].wroteManifest = 1
        /\ Len(manifest[d].files) >= 1

\* C10: manifest completeness. Every file a manifest with upload_complete = true
\* lists is a blob with at least one NDJSON line.
C10_ManifestFilesNonEmpty ==
    \A d \in DOMAIN manifest :
        manifest[d].upload_complete =>
            \A f \in Range(manifest[d].files) :
                Path(d, f) \in DOMAIN blobs /\ blobs[Path(d, f)] > 0

LoopLeft(r) == run[r].pc \in {"manifest", "complete", "done"}

MetricOffsets(r) == {m.offset : m \in run[r].metrics}

\* C11: a ChunkMetric for every attempted chunk. When a run has left its chunk
\* loop, every offset it skipped at a fault gate, every offset it wrote, and the
\* offset at which it gave up fetching, failed to parse or failed to write the
\* blob, has a ChunkMetric.
C11_MetricPerAttempt ==
    \A r \in RunSlots :
        LoopLeft(r) =>
            /\ run[r].skipped \cup run[r].written \subseteq MetricOffsets(r)
            /\ run[r].cause \in {"giveup", "parse", "savefail"}
                  => run[r].offset \in MetricOffsets(r)

RECURSIVE SumRows(_)
SumRows(ms) ==
    IF ms = {} THEN 0
    ELSE LET m == CHOOSE x \in ms : TRUE
         IN m.rows_extracted + m.rows_dropped + SumRows(ms \ {m})

\* C12: fault accounting. For a finished run, the rows_extracted and rows_dropped
\* of its ChunkMetrics add up to the records in the chunk blobs the run stored
\* plus the records the run dropped by row_drop_prob.
C12_FaultAccounting ==
    \A r \in RunSlots :
        run[r].pc = "done" =>
            SumRows(run[r].metrics) = run[r].storedRows + run[r].droppedRows

\* C13: max_offset bounding. A run with max_offset = M > 0 writes k chunks with
\* k * chunkSize < M + chunkSize, whatever the fault gates do.
C13_MaxOffsetBound ==
    \A r \in RunSlots :
        run[r].maxOffset > 0 =>
            Cardinality(run[r].written) * chunkSize < run[r].maxOffset + chunkSize

\* C13 witness: a run bounded by max_offset that skipped an offset at a fault
\* gate, wrote a chunk and stopped on the max_offset test.
C13_Witness ==
    \E r \in RunSlots :
        /\ run[r].maxOffset > 0
        /\ run[r].cause = "maxoffset"
        /\ run[r].skipped # {}
        /\ run[r].written # {}

\* C14: cooperative shutdown. A run under which /shutdown set the flag while it
\* was in its chunk loop starts no further chunk iteration.
C14_NoIterationAfterShutdown ==
    [][\A r \in RunSlots :
          run[r].stopAsked =>
              ~(run'[r].pc = "gate" /\ run'[r].offset > run[r].offset)]_vars

\* C15: stage ordering. The Trigger forwards a date to the Parquet Loader only
\* when it has received extractor_completed for that date.
C15_StageOrdering ==
    [][\A h \in Handlers :
          (fwd'[h].to = "Loader-Parquet" /\ fwd[h].to # "Loader-Parquet")
              => IsDuplicate(completed', fwd'[h].date, "extractor_completed")]_vars

InCache(c, k) == k[1] \in DOMAIN c /\ k[2] \in c[k[1]]

\* C15 as amended: the Trigger forwards a date to the Parquet Loader only while
\* handling a cleaner_completed of that date that passed the duplicate check;
\* whether extractor_completed was received for the date plays no part.
C15_LoaderOnCleanerCompleted ==
    [][\A h \in Handlers :
          (fwd'[h].to = "Loader-Parquet" /\ fwd[h].to # "Loader-Parquet")
              => /\ hreq[h].event = "cleaner_completed"
                 /\ fwd'[h].date = hreq[h].date
                 /\ InCache(completed', <<hreq[h].date, "cleaner_completed">>)]_vars

\* C15 witness: a date was forwarded to the Parquet Loader although no
\* extractor_completed of that date is in the CompletionCache or was received
\* since the last purge.
C15_Witness ==
    \E h \in Handlers :
        /\ fwd[h].to = "Loader-Parquet"
        /\ hreq[h].event = "cleaner_completed"
        /\ ~InCache(completed, <<fwd[h].date, "extractor_completed">>)
        /\ passed[<<fwd[h].date, "extractor_completed">>] = 0
        /\ InCache(completed, <<fwd[h].date, "cleaner_completed">>)

\* C16: purge semantics. Whenever a (date, event) leaves the CompletionCache the
\* whole cache is emptied; since the last purge each (date, event) passed the
\* duplicate check at most once and was forwarded at most once; and an event is
\* ignored as a duplicate only if it already passed the check since the last
\* purge.
C16_PurgeSemantics ==
    [][/\ (\E k \in Keys : InCache(completed, k) /\ ~InCache(completed', k))
             => completed' = EmptyCache
       /\ \A k \in Keys : passed'[k] <= 1 /\ fwdCount'[k] <= passed'[k]
       /\ \A h \in Handlers :
             (hpc[h] = "check" /\ hpc'[h] = "idle") => passed[RoutedKey(h)] = 1]_vars

\* C16 witness: the watched (date, event) was in the cache when a purge came, was
\* then posted again and forwarded once more, and its next re-post was ignored.
C16_Witness ==
    /\ purgedSeen
    /\ passed[WatchedKey] = 1
    /\ fwdCount[WatchedKey] = 1
    /\ \E h \in Handlers :
          /\ hpc[h] = "idle"
          /\ RoutedKey(h) = WatchedKey
          /\ resp[h] = 200
          /\ fwd[h] = NoFwd

\* C17: a duplicate changes nothing. While a handler carries an event that is
\* already in the CompletionCache, no step changes the cache or the forward
\* counts, the handler issues no forward and appends no duration line, and its
\* duplicate check ends the request with status 200.
C17_DuplicateChangesNothing ==
    [][\A h \in Handlers :
          (hpc[h] \in {"lookup", "check"} /\ InCache(completed, RoutedKey(h)))
              => /\ completed' = completed
                 /\ fwdCount' = fwdCount
                 /\ fwd'[h] = NoFwd
                 /\ logged'[h] = <<>>
                 /\ hpc[h] = "check" => (hpc'[h] = "idle" /\ resp'[h] = 200)]_vars

\* C17 witness: a duplicate of a routed event that carried a duration was
\* answered 200 with no forward and no duration line.
C17_Witness ==
    \E h \in Handlers :
        /\ hpc[h] = "idle"
        /\ hreq[h].event \in RoutedEvents
        /\ hreq[h].duration # ""
        /\ InCache(completed, RoutedKey(h))
        /\ resp[h] = 200
        /\ fwd[h] = NoFwd
        /\ logged[h] = <<>>

\* C18: routing table. The routing step of a fresh extractor_completed issues one
\* POST of its date to the Cleaner, that of a fresh cleaner_completed one POST of
\* its date to the Parquet Loader, and that of any other event no POST.
C18_RoutingTable ==
    [][\A h \in Handlers :
          (hpc[h] = "route" /\ hpc'[h] = "idle") =>
              LET e == hreq[h].event
                  d == hreq[h].date
              IN /\ e = "extractor_completed" =>
                        /\ fwd'[h].to = "Cleaner" /\ fwd'[h].date = d
                        /\ fwdCount'[<<d, e>>] = fwdCount[<<d, e>>] + 1
                 /\ e = "cleaner_completed" =>
                        /\ fwd'[h].to = "Loader-Parquet" /\ fwd'[h].date = d
                        /\ fwdCount'[<<d, e>>] = fwdCount[<<d, e>>] + 1
                 /\ e \notin {"extractor_completed", "cleaner_completed"} =>
                        fwd'[h] = NoFwd /\ fwdCount' = fwdCount
                 /\ \A k \in Keys \ {<<d, e>>} : fwdCount'[k] = fwdCount[k]]_vars

\* C18 witness: a cleaner_completed was forwarded, with its date, to the Parquet
\* Loader.
C18_Witness ==
    \E h \in Handlers :
        /\ hpc[h] = "idle"
        /\ hreq[h].event = "cleaner_completed"
        /\ fwd[h].to = "Loader-Parquet"
        /\ fwd[h].date = hreq[h].date
        /\ fwdCount[RoutedKey(h)] = 1

\* C19: /run. A well-formed POST is forwarded to the Extractor with its date,
\* max_offset and four probabilities unchanged and answered 200 when the POST was
\* delivered and 502 when the transport failed; a malformed body is answered 400
\* and not forwarded; the CompletionCache is not modified.
C19_RunForward ==
    [][runCall' # runCall =>
          /\ completed' = completed
          /\ (runCall'.req.method = "POST" /\ runCall'.req.wellFormed) =>
                /\ runCall'.fwd.sent
                /\ runCall'.fwd.body.date = runCall'.req.body.date
                /\ runCall'.fwd.body.max_offset = runCall'.req.body.max_offset
                /\ runCall'.fwd.body.api_error_prob = runCall'.req.body.api_error_prob
                /\ runCall'.fwd.body.gcs_error_prob = runCall'.req.body.gcs_error_prob
                /\ runCall'.fwd.body.row_drop_prob = runCall'.req.body.row_drop_prob
                /\ runCall'.fwd.body.delay_prob = runCall'.req.body.delay_prob
                /\ runCall'.resp = IF runCall'.delivered THEN 200 ELSE 502
          /\ (runCall'.req.method = "POST" /\ ~runCall'.req.wellFormed) =>
                ~runCall'.fwd.sent /\ runCall'.resp = 400]_vars

\* C19 witness: with events in the CompletionCache, a RunRequest with four
\* different probabilities was forwarded and the transport failed.
C19_Witness ==
    /\ completed # EmptyCache
    /\ \E d \in DOMAIN completed : completed[d] # {}
    /\ runCall.fwd.sent
    /\ runCall.fwd.body = RunBody("2025-03-31", 2000, 50, 25, 75, 99)
    /\ ~runCall.delivered
    /\ runCall.resp = 502

\* C20: on /clean, an event whose forward POST to the Cleaner or the Parquet
\* Loader failed is answered 502, and one whose forward was delivered 200.
C20_ForwardFailure502 ==
    \A h \in Handlers :
        (hpc[h] = "idle" /\ fwd[h].to # "none") =>
            resp[h] = IF fwd[h].delivered THEN 200 ELSE 502

\* C20 as amended: on /clean every request that ended is answered 200, 400 or
\* 405; an event that was forwarded is answered 200 whether the forward POST was
\* delivered or failed; a request answered 400 or 405 left no decoded event and
\* no forward.
C20_CleanRepliesWithoutTransport ==
    \A h \in Handlers :
        hpc[h] = "idle" =>
            /\ resp[h] \in {0, 200, 400, 405}
            /\ fwd[h].to # "none" => resp[h] = 200
            /\ resp[h] \in {400, 405} => (fwd[h] = NoFwd /\ hreq[h] = NoReq)

\* C20 witness: an event whose forward POST failed was answered 200.
C20_Witness ==
    \E h \in Handlers :
        /\ hpc[h] = "idle"
        /\ fwd[h].to \in {"Cleaner", "Loader-Parquet"}
        /\ ~fwd[h].delivered
        /\ resp[h] = 200

HappyAccepted(d) ==
    /\ \E r \in RunSlots : run[r].pc = "start" /\ run[r].date = d /\ run[r].maxOffset > 0
    /\ \A e \in Events : ~InCache(completed, <<d, e>>)

HappyForwarded(d) ==
    /\ InCache(completed, <<d, "extractor_started">>)
    /\ InCache(completed, <<d, "extractor_completed">>)
    /\ fwdCount[<<d, "extractor_completed">>] = 1
    /\ \E h \in Handlers : fwd[h] = [to |-> "Cleaner", date |-> d, delivered |-> TRUE]

\* C21: happy path. A /run with max_offset > 0 and all probabilities 0 for a date
\* with no event in the CompletionCache leads to the Trigger having received
\* extractor_started and extractor_completed for the date and having forwarded
\* the date to the Cleaner; extractor_completed is never recorded before
\* extractor_started, and the forward happens at most once.
C21_HappyPath ==
    /\ \A d \in Dates : HappyAccepted(d) ~> HappyForwarded(d)
    /\ [](\A d \in Dates :
            /\ InCache(completed, <<d, "extractor_completed">>)
                  => InCache(completed, <<d, "extractor_started">>)
            /\ fwdCount[<<d, "extractor_completed">>] <= 1)

\* C21 witness: a run that wrote two chunks is done and its date was forwarded to
\* the Cleaner.
C21_Witness ==
    \E r \in RunSlots :
        /\ run[r].pc = "done"
        /\ run[r].written = {0, 1000}
        /\ HappyForwarded(run[r].date)

ManifestGateApplies ==
    /\ loader.status # 0
    /\ loader.hasDate
    /\ (~loader.doc.exists \/ ~loader.doc.parses \/ ~loader.doc.upload_complete)

TwoRunsInFlight ==
    \E r, q \in RunSlots :
        /\ r # q
        /\ ~Finished(r) /\ ~Finished(q)
        /\ run[r].date # run[q].date

\* C23: while two /extract tasks for disjoint dates run concurrently, no step of
\* either chunk loop decreases the persisted last_offset.
C23_ConcurrentCheckpointMonotone ==
    [][TwoRunsInFlight => LastOffsetOf(checkpoint') >= LastOffsetOf(checkpoint)]_vars

Attempted(r) == run[r].skipped \cup run[r].written

\* the iteration of run r ends in this step and the loop goes on
IterationContinues(r) ==
    /\ InChunkLoop(r)
    /\ run'[r].id = run[r].id
    /\ run'[r].pc = "gate"
    /\ (run[r].pc = "gate" => run'[r].skipped # run[r].skipped)

\* C24: within one /extract invocation the offsets attempted are offset0,
\* offset0 + chunk_size, offset0 + 2*chunk_size, ...: the offsets already
\* attempted are exactly the multiples below the current one, the offset changes
\* only by chunk_size and only upward, every iteration that continues advances it
\* by exactly chunk_size, and the current offset has not been attempted before.
C24_AscendingOffsets ==
    /\ [](\A r \in RunSlots :
            InChunkLoop(r) =>
                /\ run[r].offset >= run[r].initialOffset
                /\ (run[r].offset - run[r].initialOffset) % chunkSize = 0
                /\ \A n \in Attempted(r) :
                       n < run[r].offset \/ (run[r].pc = "ckpt" /\ n = run[r].offset)
                /\ \A k \in 0..(FeedRows \div chunkSize + 1) :
                       run[r].initialOffset + k * chunkSize < run[r].offset
                           => run[r].initialOffset + k * chunkSize \in Attempted(r))
    /\ [][\A r \in RunSlots :
            /\ (InChunkLoop(r) /\ run'[r].id = run[r].id)
                   => run'[r].offset \in {run[r].offset, run[r].offset + chunkSize}
            /\ IterationContinues(r) => run'[r].offset = run[r].offset + chunkSize]_vars

\* C24 witness: a run at the top of its third iteration, at offset 2000, having
\* attempted offsets 0 and 1000.
C24_Witness ==
    \E r \in RunSlots :
        /\ run[r].pc = "gate"
        /\ run[r].initialOffset = 0
        /\ run[r].offset = 2 * chunkSize
        /\ Attempted(r) = {0, chunkSize}

SameRun(r) == run'[r].id = run[r].id

\* run r ends an iteration at a fault gate in this step
SkipStep(r) == SameRun(r) /\ run'[r].skipped # run[r].skipped

\* C25: an iteration skipped by the API or the GCS fault gate leaves durable
\* state untouched. No step of the iteration writes a blob, changes the
\* checkpoint or the manifest, or adds a filename to the file list; the step that
\* skips emits exactly one ChunkMetric for the offset, with fetch_skipped=true and
\* rows_extracted=0 at the API gate and gcs_write_skipped=true at the GCS gate,
\* and advances the offset by chunk_size.
C25_SkipLeavesDurableState ==
    [][\A r \in RunSlots :
          /\ (SameRun(r) /\ run[r].pc \in {"gate", "fetch", "transform"})
                => /\ blobs' = blobs
                   /\ checkpoint' = checkpoint
                   /\ manifest' = manifest
                   /\ run'[r].files = run[r].files
          /\ SkipStep(r)
                => /\ run[r].pc \in {"gate", "transform"}
                   /\ run'[r].skipped = run[r].skipped \cup {run[r].offset}
                   /\ run'[r].offset = run[r].offset + chunkSize
                   /\ \E m \in run'[r].metrics :
                         /\ m \notin run[r].metrics
                         /\ run'[r].metrics = run[r].metrics \cup {m}
                         /\ m.offset = run[r].offset
                         /\ IF run[r].pc = "gate"
                            THEN /\ m.fetch_skipped /\ ~m.gcs_write_skipped
                                 /\ m.rows_extracted = 0
                            ELSE m.gcs_write_skipped /\ ~m.fetch_skipped]_vars

\* C25 witness: a run that skipped offset 0 at the API gate and offset 1000 at
\* the GCS gate has a metric for each and wrote no blob.
C25_Witness ==
    \E r \in RunSlots :
        /\ run[r].skipped = {0, chunkSize}
        /\ run[r].written = {}
        /\ \E m \in run[r].metrics : m.offset = 0 /\ m.fetch_skipped
        /\ \E m \in run[r].metrics : m.offset = chunkSize /\ m.gcs_write_skipped
        /\ blobs = EmptyMap
        /\ checkpoint = NoObject

\* C26: bounded retry of the feed fetch. For a chunk the Extractor issues at
\* most 5 GET requests and none after the first 200 response; a run whose 5
\* attempts all failed has issued 5, has left the chunk loop, and from the failed
\* fetch on writes no blob and does not change the checkpoint.
C26_BoundedRetry ==
    /\ [](\A r \in RunSlots :
            /\ run[r].gets <= 5
            /\ (run[r].okAt \in 1..5 => run[r].gets = run[r].okAt)
            /\ (run[r].okAt > 5 => run[r].gets = 5 /\ run[r].cause = "giveup")
            /\ (run[r].cause = "giveup" => LoopLeft(r) /\ run[r].offset \notin run[r].written))
    /\ [][\A r \in RunSlots :
            (SameRun(r) /\ run'[r].cause = "giveup")
                => blobs' = blobs /\ checkpoint' = checkpoint]_vars

\* C26 witness: a run that wrote the chunk at offset 0 gave up at offset 1000
\* after 5 failed attempts.
C26_Witness ==
    \E r \in RunSlots :
        /\ run[r].cause = "giveup"
        /\ run[r].gets = 5
        /\ run[r].written = {0}
        /\ run[r].offset = chunkSize
        /\ LastOffsetOf(checkpoint) = chunkSize

BeforeStartedPost(r) == run[r].pc \in {"idle", "start"}

\* C27: event order within one run. extractor_started has been posted, once,
\* whenever the run is past its first step, so before the checkpoint is read and
\* before any chunk is written; no chunk is written once the manifest write has
\* been made; extractor_completed is posted only from the step after the
\* manifest write; and neither event is posted twice.
C27_EventOrder ==
    /\ [](\A r \in RunSlots :
            /\ run[r].postedStarted <= 1
            /\ run[r].postedCompleted <= 1
            /\ (~BeforeStartedPost(r) => run[r].postedStarted = 1)
            /\ (run[r].pc = "start" => run[r].written = {} /\ run[r].postedStarted = 0)
            /\ (run[r].postedCompleted = 1 => run[r].pc = "done")
            /\ (run[r].pc \in {"complete", "done"} => ~InChunkLoop(r)))
    /\ [][\A r \in RunSlots :
            SameRun(r) =>
                /\ (run'[r].written # run[r].written
                       => /\ run[r].postedStarted = 1
                          /\ InChunkLoop(r)
                          /\ run[r].wroteManifest = 0)
                /\ (run[r].pc = "setup" /\ run'[r].pc = "gate"
                       => run[r].postedStarted = 1)
                /\ (run[r].pc = "manifest" /\ run'[r].pc # "manifest"
                       => run'[r].pc = "complete")
                /\ (run'[r].pc = "complete" /\ run[r].pc # "complete"
                       => run[r].pc = "manifest")
                /\ (run'[r].wroteManifest # run[r].wroteManifest
                       => run[r].pc = "manifest" /\ run'[r].postedCompleted = 0)
                /\ (run'[r].postedCompleted # run[r].postedCompleted
                       => run[r].pc = "complete")]_vars

\* C27 witness: a finished run that wrote a chunk and its manifest and posted
\* both events.
C27_Witness ==
    \E r \in RunSlots :
        /\ run[r].pc = "done"
        /\ run[r].written # {}
        /\ run[r].wroteManifest = 1
        /\ run[r].postedStarted = 1
        /\ run[r].postedCompleted = 1

WrittenMetric(m) == ~m.fetch_skipped /\ ~m.gcs_write_skipped

\* C30: per-chunk row accounting. Every chunk a run wrote has a ChunkMetric
\* whose rows_extracted is the number of NDJSON lines in the stored blob and whose
\* rows_extracted + rows_dropped is the number of records the feed returned for
\* the offset.
C30_RowAccounting ==
    \A r \in RunSlots :
        /\ \A n \in run[r].written :
              \E m \in run[r].metrics : WrittenMetric(m) /\ m.offset = n
        /\ \A m \in run[r].metrics :
              WrittenMetric(m) =>
                  /\ Path(run[r].date, m.offset) \in DOMAIN blobs
                  /\ blobs[Path(run[r].date, m.offset)] = m.rows_extracted
                  /\ m.rows_extracted + m.rows_dropped = PageRows(m.offset, chunkSize)

\* C30 witness: a written chunk of which some rows were dropped and some stored.
C30_Witness ==
    \E r \in RunSlots :
        \E m \in run[r].metrics :
            /\ WrittenMetric(m)
            /\ m.rows_dropped > 0
            /\ m.rows_extracted > 0
            /\ blobs[Path(run[r].date, m.offset)] = m.rows_extracted

\* C28: no automatic retry of a failed forward. While a forward POST for a fresh
\* (date, event) has failed and no purge has happened since, the pair is in the
\* CompletionCache and exactly one forward POST has been issued for it; a
\* re-delivery of the event is ended by the duplicate check with status 200 and
\* no forward.
C28_NoRetryOfFailedForward ==
    /\ [](fwdLost => /\ InCache(completed, WatchedKey)
                     /\ fwdCount[WatchedKey] = 1)
    /\ [][\A h \in Handlers :
            (fwdLost /\ hpc[h] = "check" /\ RoutedKey(h) = WatchedKey)
                => /\ hpc'[h] = "idle"
                   /\ resp'[h] = 200
                   /\ fwd'[h] = NoFwd
                   /\ fwdCount' = fwdCount
                   /\ completed' = completed]_vars

\* C28 witness: after the forward for the pair failed, a re-delivery of the event
\* was answered 200 without a forward, the pair still in the CompletionCache.
C28_Witness ==
    /\ fwdLost
    /\ \E h \in Handlers :
          /\ hpc[h] = "idle"
          /\ RoutedKey(h) = WatchedKey
          /\ resp[h] = 200
          /\ fwd[h] = NoFwd
    /\ InCache(completed, WatchedKey)
    /\ fwdCount[WatchedKey] = 1

CleanerCompletedAt(h, pc) == hpc[h] = pc /\ hreq[h].event = "cleaner_completed"

\* C29: out-of-order events are forwarded as-is. A cleaner_completed that is not
\* in the CompletionCache passes the duplicate check, is recorded and is
\* forwarded with its date to the Parquet Loader, whatever else the cache holds:
\* no step looks for extractor_started or extractor_completed of the date.
C29_OutOfOrderForwarded ==
    [][\A h \in Handlers :
          /\ (CleanerCompletedAt(h, "check") /\ ~InCache(completed, RoutedKey(h))
                 /\ hpc'[h] # "check")
                => hpc'[h] = "insert"
          /\ (CleanerCompletedAt(h, "insert") /\ hpc'[h] # "insert")
                => /\ hpc'[h] = "route"
                   /\ InCache(completed', RoutedKey(h))
          /\ (CleanerCompletedAt(h, "route") /\ hpc'[h] # "route")
                => /\ fwd'[h].to = "Loader-Parquet"
                   /\ fwd'[h].date = hreq[h].date
                   /\ fwdCount'[RoutedKey(h)] = fwdCount[RoutedKey(h)] + 1]_vars

\* C29 witness: a cleaner_completed was forwarded to the Parquet Loader and
\* delivered while its date's entry of the CompletionCache holds nothing else and
\* no extractor event of the date passed the duplicate check.
C29_Witness ==
    \E h \in Handlers :
        /\ hpc[h] = "idle"
        /\ hreq[h].event = "cleaner_completed"
        /\ fwd[h] = [to |-> "Loader-Parquet", date |-> hreq[h].date, delivered |-> TRUE]
        /\ completed[hreq[h].date] = {"cleaner_completed"}
        /\ passed[<<hreq[h].date, "extractor_started">>] = 0
        /\ passed[<<hreq[h].date, "extractor_completed">>] = 0

\* C31: probability bounds behave as clamped for every draw. In a run whose
\* probability is 0 or below the API, GCS and delay gates never fire and no
\* record is dropped; in a run whose probability is 1 or above the gate fires at
\* every chunk and every record is dropped.
C31_ProbabilityBounds ==
    \A r \in RunSlots :
        \A m \in run[r].metrics :
            /\ (run[r].api <= 0 => ~m.fetch_skipped)
            /\ (run[r].gcs <= 0 => ~m.gcs_write_skipped)
            /\ (run[r].delay <= 0 => ~m.delay_applied)
            /\ (run[r].drop <= 0 => m.rows_dropped = 0)
            /\ (run[r].api >= 100 => m.fetch_skipped)
            /\ (run[r].gcs >= 100 => m.gcs_write_skipped)
            /\ (run[r].delay >= 100 /\ WrittenMetric(m) => m.delay_applied)
            /\ (run[r].drop >= 100 /\ ~m.fetch_skipped => m.rows_extracted = 0)

\* C32: chunk immutability. Over runs executed one after another no chunk path
\* is written twice: a step that writes the chunk of (date, offset) finds no
\* blob at that path.
C32_ChunkWrittenOnce ==
    [][\A r \in RunSlots :
          (SameRun(r) /\ run'[r].written # run[r].written)
              => Path(run[r].date, run[r].offset) \notin DOMAIN blobs]_vars

\* C36: extractor_completed is posted only if the manifest write of the run
\* succeeded.
C36_CompletedOnlyAfterManifest ==
    \A r \in RunSlots :
        run[r].postedCompleted > 0 => run[r].wroteManifest > 0

\* max_offset rounded up to a whole number of chunks
RoundUpToChunk(n) == ((n + chunkSize - 1) \div chunkSize) * chunkSize

\* C37: in a run with max_offset = M > 0 started at offset0, every chunk written
\* starts at an offset N with offset0 <= N < offset0 + M, and the offset the run
\* persists as checkpoint is at most offset0 + M rounded up to a whole chunk.
C37_WritesBelowMaxOffset ==
    /\ [](\A r \in RunSlots :
            run[r].maxOffset > 0 =>
                \A n \in run[r].written :
                    /\ run[r].initialOffset <= n
                    /\ n < run[r].initialOffset + run[r].maxOffset)
    /\ [][\A r \in RunSlots :
            (SameRun(r) /\ run[r].maxOffset > 0 /\ run[r].pc = "ckpt"
               /\ checkpoint' # checkpoint)
                => LastOffsetOf(checkpoint')
                     <= run[r].initialOffset + RoundUpToChunk(run[r].maxOffset)]_vars

\* C33: a blob-write failure of the chunk at offset N ends the run without
\* advancing the checkpoint. No step of an iteration before its checkpoint write
\* changes the checkpoint; the step on which the write fails leaves the chunk
\* loop with checkpoint and blobs as they were, and the run changes neither
\* afterwards; and the offset a following run reads from the checkpoint is at
\* most N.
C33_WriteFailureKeepsCheckpoint ==
    /\ [](\A r \in RunSlots :
            run[r].cause = "savefail" =>
                /\ LoopLeft(r)
                /\ run[r].offset \notin run[r].written
                /\ ReadCheckpoint(checkpoint) <= run[r].offset)
    /\ [][\A r \in RunSlots :
            /\ (SameRun(r) /\ run[r].pc \in {"gate", "fetch", "transform", "save"})
                  => checkpoint' = checkpoint
            /\ (SameRun(r) /\ run'[r].cause = "savefail")
                  => /\ checkpoint' = checkpoint
                     /\ blobs' = blobs
                     /\ run'[r].offset = run[r].offset
                     /\ (run[r].cause # "savefail"
                            => run[r].pc = "save" /\ run'[r].pc = "manifest")]_vars

\* C33 witness: a run that wrote the chunk at offset 0 and failed to write the
\* one at offset 1000 is finished, the checkpoint holding 1000.
C33_Witness ==
    \E r \in RunSlots :
        /\ run[r].cause = "savefail"
        /\ run[r].pc = "done"
        /\ run[r].written = {0}
        /\ run[r].offset = chunkSize
        /\ LastOffsetOf(checkpoint) = chunkSize

\* C34: termination of the chunk loop. Against a responsive feed every run with
\* max_offset > 0, whatever its fault probabilities, eventually leaves the chunk
\* loop and reaches the manifest write.
C34_ChunkLoopTerminates ==
    \A r \in RunSlots :
        (InChunkLoop(r) /\ run[r].maxOffset > 0) ~> LoopLeft(r)

ExtractionCompleted(d) == InCache(completed, <<d, "extractor_completed">>)

\* C35: a pipeline run for a date whose extractor_completed is already in the
\* CompletionCache does not progress without a purge. The /run is forwarded to
\* the Extractor without looking at the cache, the extractor_completed of the
\* new run is ended by the duplicate check with status 200 and no forward, and
\* the Cleaner has been invoked for the date once.
C35_RerunDoesNotProgress ==
    /\ [](\A d \in Dates :
            /\ fwdCount[<<d, "extractor_completed">>] <= 1
            /\ (fwdCount[<<d, "extractor_completed">>] = 1 => ExtractionCompleted(d)))
    /\ [][/\ runCall' # runCall
             => /\ completed' = completed
                /\ fwdCount' = fwdCount
                /\ runCall'.fwd.sent
          /\ \A h \in Handlers :
                (/\ hpc[h] = "check"
                 /\ hreq[h].event = "extractor_completed"
                 /\ ExtractionCompleted(hreq[h].date))
                    => /\ hpc'[h] = "idle"
                       /\ resp'[h] = 200
                       /\ fwd'[h] = NoFwd
                       /\ fwdCount' = fwdCount
                       /\ completed' = completed]_vars

\* C35 witness: the second run for a date is done and has posted its
\* extractor_completed, which was answered 200 without a forward; the Cleaner
\* was invoked once for the date.
C35_Witness ==
    \E r \in RunSlots, h \in Handlers :
        /\ run[r].id = 2
        /\ run[r].pc = "done"
        /\ run[r].postedCompleted = 1
        /\ runCall.resp = 200
        /\ runCall.fwd.body.date = run[r].date
        /\ hpc[h] = "idle"
        /\ hreq[h].event = "extractor_completed"
        /\ hreq[h].date = run[r].date
        /\ resp[h] = 200
        /\ fwd[h] = NoFwd
        /\ fwdCount[<<run[r].date, "extractor_completed">>] = 1

\* C38: the shutdown flag is sticky. Once set it stays set; a run that passes
\* its checkpoint write while the flag is set leaves the chunk loop there, so it
\* writes at most one chunk under the flag; and every run that is in its chunk
\* loop while the flag is set goes on to the manifest write, which stores
\* upload_complete=true, and posts extractor_completed.
C38_StickyShutdown ==
    /\ [][/\ shutdownRequested => shutdownRequested'
          /\ \A r \in RunSlots :
                /\ (SameRun(r) /\ shutdownRequested /\ run[r].pc = "ckpt"
                       /\ run'[r].pc # "ckpt")
                      => run'[r].pc = "manifest"
                /\ (SameRun(r) /\ run'[r].wroteManifest # run[r].wroteManifest)
                      => manifest'[run[r].date].upload_complete]_vars
    /\ \A r \in RunSlots :
          (shutdownRequested /\ InChunkLoop(r))
              ~> (run[r].pc = "done" /\ run[r].postedCompleted = 1)

\* C39: ChunkMetric flags are consistent. No metric has both fetch_skipped and
\* gcs_write_skipped; delay_applied is set only on the metric of a chunk that
\* was written; fetch_skipped comes with rows_extracted = 0 and rows_dropped = 0.
C39_MetricFlagsConsistent ==
    \A r \in RunSlots :
        \A m \in run[r].metrics :
            /\ ~(m.fetch_skipped /\ m.gcs_write_skipped)
            /\ (m.delay_applied => /\ WrittenMetric(m)
                                   /\ m.offset \in run[r].written)
            /\ (m.fetch_skipped => m.rows_extracted = 0 /\ m.rows_dropped = 0)
            /\ (m.gcs_write_skipped \/ m.fetch_skipped => m.offset \in run[r].skipped)

\* C39 witness: a run with the chunk at offset 0 written and the chunk at offset
\* 1000 skipped at the GCS gate after rows were dropped.
C39_Witness ==
    \E r \in RunSlots :
        \E m, n \in run[r].metrics :
            /\ WrittenMetric(m) /\ m.offset = 0
            /\ n.gcs_write_skipped /\ n.offset = chunkSize
            /\ n.rows_extracted > 0 /\ n.rows_dropped > 0

====
